---------------------------- MODULE Spec2Model ----------------------------
(***************************************************************************)
(* Kinematic actor, player timing state machine, collision world and       *)
(* keyboard edge detector of the pucky platformer prototype.               *)
(*                                                                         *)
(* Numbers: the program computes with IEEE doubles.  The model uses fixed  *)
(* point: lengths and velocities in 1/1000 unit, dt in 1/1000 frame (so    *)
(* the program's "dt * 1000" is the model's dt), multipliers in 1/1000.    *)
(* Products are truncated toward zero.                                     *)
(***************************************************************************)
EXTENDS Integers, Sequences, FiniteSets, TLC

\* fixed-point scale: 1 unit of the program = Unit of the model
Unit == 10 * 10 * 10

Min(a, b) == IF a < b THEN a ELSE b
Abs(a) == IF a < 0 THEN -a ELSE a
Sign(a) == IF a > 0 THEN 1 ELSE IF a < 0 THEN -1 ELSE 0
\* a / b truncated toward zero (b > 0)
TruncDiv(a, b) == IF a >= 0 THEN a \div b ELSE -((-a) \div b)

---------------------------------------------------------------------------
\* Bounds of the model.
MaxSweeps == 2
MaxFrames == 10
MaxKeyEvents == 3
MaxKbSteps == 7
MaxQueries == 3
MaxRespawns == 1
MaxPauses == 1
MaxOddFrames == 1
MaxTimingKeyEvents == 2
MaxTimingFrames == 13
MaxMoveCalls == 3
MaxMoveFrames == 10
MaxRunCalls == 2
MaxRunFrames == 33
MaxHopTicks == 24
MaxResetCalls == 3
MaxLiveCalls == 2
MaxLiveFrames == 8
MaxResetFrames == 8

---------------------------------------------------------------------------
\* Actor.ts: tuning (TUNING_DEFAULTS, and the same values passed by Player)
solidBox == [offsetX |-> -16 * Unit, offsetY |-> -64 * Unit,
             width |-> 32 * Unit, height |-> 56 * Unit]
maxSpeedX == 3 * Unit
gravity == Unit \div 2
\* multipliers, in 1/1000
gravityUpMultiplier == 600
easeGround == 135
easeTurnMultiplier == 250
easeAir == 300
airSpeedFactor == 900
shortHopEnabled == TRUE
earlyReleaseGravityMultiplier == 2000
\* "Halved gravity at the jump peak": |vy| < 0.8, factor 0.5
peakSpeed == 800
peakGravityFactor == 500

\* a variant sub-step, wider than the hitbox and the solids
STEP_RESOLUTION_Coarse == 64 * Unit
\* Actor.STEP_RESOLUTION
STEP_RESOLUTION == 1 * Unit
wiggleDistance == 20 * Unit
probeSize == 2 * Unit

\* Player.ts: TUNING
jumpForce == 10 * Unit
moveThreshold == 800
jumpBufferMs == 10500
coyoteTimeMs == 5000
turnThreshold == 2 * Unit
\* jumpState.timeSinceGrounded starts at Infinity; Infinity + x = Infinity
Infinity == 999999999
spawnX == 200 * Unit
spawnY == 200 * Unit

KeyLeft == "ArrowLeft"
KeyRight == "ArrowRight"
KeySpace == "Space"
Keys == {KeyLeft, KeyRight, KeySpace}

---------------------------------------------------------------------------
\* Solid.ts: a static rectangle with a hazard flag
Solid(x, y, w, h, hazard) ==
  [x |-> x * Unit, y |-> y * Unit, w |-> w * Unit, h |-> h * Unit, isHazard |-> hazard]

\* Solid.getBoundsRect + the overlap test of TestScreen.collidesAt
Overlaps(x, y, w, h, s) ==
  /\ x + w > s.x
  /\ x < s.x + s.w
  /\ y + h > s.y
  /\ y < s.y + s.h

\* TestScreen.collidesAt: the first overlapping solid of the list decides:
\* blocked, and the hazard callback is invoked iff that solid is a hazard.
\* hazard is the number of callback invocations of the query (0 or 1).
RECURSIVE CollidesFrom(_, _, _, _, _, _)
CollidesFrom(sol, i, x, y, w, h) ==
  IF i > Len(sol) THEN [hit |-> FALSE, hazard |-> 0]
  ELSE IF Overlaps(x, y, w, h, sol[i])
       THEN [hit |-> TRUE, hazard |-> IF sol[i].isHazard THEN 1 ELSE 0]
       ELSE CollidesFrom(sol, i + 1, x, y, w, h)

\* a variant in which a world without solids blocks every query
collidesAt_UnsetBlocks(sol, x, y, w, h) ==
  IF Len(sol) = 0 THEN [hit |-> TRUE, hazard |-> 0]
  ELSE CollidesFrom(sol, 1, x, y, w, h)

collidesAt(sol, x, y, w, h) == CollidesFrom(sol, 1, x, y, w, h)

\* Actor.getSolidBox
getSolidBox(x, y) ==
  [x |-> x + solidBox.offsetX, y |-> y + solidBox.offsetY,
   width |-> solidBox.width, height |-> solidBox.height]

\* Actor._move: sub-stepped sweep along one axis.  Returns the position
\* reached, whether a sub-step was blocked, the hazard callbacks invoked and
\* the number of calls of the collision checker.
RECURSIVE MoveLoop(_, _, _, _, _, _)
MoveLoop(sol, axis, x, y, sign, remaining) ==
  IF remaining <= 0 THEN [x |-> x, y |-> y, hit |-> FALSE, hazard |-> 0, probes |-> 0]
  ELSE LET step == Min(STEP_RESOLUTION, remaining)
           nx == IF axis = "x" THEN x + step * sign ELSE x
           ny == IF axis = "y" THEN y + step * sign ELSE y
           b == getSolidBox(nx, ny)
           q == collidesAt(sol, b.x, b.y, b.width, b.height)
       IN IF q.hit THEN [x |-> x, y |-> y, hit |-> TRUE, hazard |-> q.hazard, probes |-> 1]
          ELSE [MoveLoop(sol, axis, nx, ny, sign, remaining - step) EXCEPT !.probes = @ + 1]

_move(sol, axis, x, y, amount) == MoveLoop(sol, axis, x, y, Sign(amount), Abs(amount))

\* Actor.moveX on a player record p
moveX(sol, p, dt) ==
  LET moveAmount == TruncDiv(p.vx * dt, Unit)
      m == _move(sol, "x", p.x, p.y, moveAmount)
  IN [p |-> [p EXCEPT !.x = m.x, !.vx = IF m.hit THEN 0 ELSE p.vx],
      hit |-> m.hit, hazard |-> m.hazard]

\* a variant of Actor.tryCornerWiggle that does not test the shifted hitbox
tryCornerWiggle_NoBody(sol, p, yBefore, vyBefore) ==
  IF vyBefore >= 0 THEN [p |-> p, hazard |-> 0, wiggled |-> 0]
  ELSE
  LET playerTop == yBefore + solidBox.offsetY
      playerLeft == p.x + solidBox.offsetX
      playerRight == playerLeft + solidBox.width
      lq == collidesAt(sol, playerLeft, playerTop - Unit, probeSize, probeSize)
      rq == collidesAt(sol, playerRight - probeSize, playerTop - Unit, probeSize, probeSize)
      above(dir) == collidesAt(sol, p.x + dir * wiggleDistance + solidBox.offsetX,
                               playerTop - 2 * Unit, solidBox.width, 2 * Unit)
      tryRight == lq.hit /\ ~rq.hit
      tryLeft == ~tryRight /\ rq.hit /\ ~lq.hit
      dir == IF tryRight THEN 1 ELSE IF tryLeft THEN -1 ELSE 0
      go == dir # 0 /\ ~above(dir).hit
  IN [p |-> IF go THEN [p EXCEPT !.x = p.x + dir * wiggleDistance,
                                 !.vy = Min(vyBefore, -Unit)]
            ELSE p,
      hazard |-> lq.hazard + rq.hazard + (IF dir = 0 THEN 0 ELSE above(dir).hazard),
      wiggled |-> IF go THEN dir ELSE 0]

\* a variant of Actor.tryCornerWiggle that does not test the band above the
\* shifted hitbox
tryCornerWiggle_NoAbove(sol, p, yBefore, vyBefore) ==
  IF vyBefore >= 0 THEN [p |-> p, hazard |-> 0, wiggled |-> 0]
  ELSE
  LET playerTop == yBefore + solidBox.offsetY
      playerLeft == p.x + solidBox.offsetX
      playerRight == playerLeft + solidBox.width
      lq == collidesAt(sol, playerLeft, playerTop - Unit, probeSize, probeSize)
      rq == collidesAt(sol, playerRight - probeSize, playerTop - Unit, probeSize, probeSize)
      body(dir) == collidesAt(sol, p.x + dir * wiggleDistance + solidBox.offsetX,
                              playerTop, solidBox.width, solidBox.height)
      tryRight == lq.hit /\ ~rq.hit
      tryLeft == ~tryRight /\ rq.hit /\ ~lq.hit
      dir == IF tryRight THEN 1 ELSE IF tryLeft THEN -1 ELSE 0
      go == dir # 0 /\ ~body(dir).hit
  IN [p |-> IF go THEN [p EXCEPT !.x = p.x + dir * wiggleDistance,
                                 !.vy = Min(vyBefore, -Unit)]
            ELSE p,
      hazard |-> lq.hazard + rq.hazard + (IF dir = 0 THEN 0 ELSE body(dir).hazard),
      wiggled |-> IF go THEN dir ELSE 0]

\* Actor.tryCornerWiggle: p is the actor after the blocked upward sweep
tryCornerWiggle(sol, p, yBefore, vyBefore) ==
  IF vyBefore >= 0 THEN [p |-> p, hazard |-> 0, wiggled |-> 0]
  ELSE
  LET playerTop == yBefore + solidBox.offsetY
      playerLeft == p.x + solidBox.offsetX
      playerRight == playerLeft + solidBox.width
      lq == collidesAt(sol, playerLeft, playerTop - Unit, probeSize, probeSize)
      rq == collidesAt(sol, playerRight - probeSize, playerTop - Unit, probeSize, probeSize)
      body(dir) == collidesAt(sol, p.x + dir * wiggleDistance + solidBox.offsetX,
                              playerTop, solidBox.width, solidBox.height)
      above(dir) == collidesAt(sol, p.x + dir * wiggleDistance + solidBox.offsetX,
                               playerTop - 2 * Unit, solidBox.width, 2 * Unit)
      canWiggle(dir) == ~body(dir).hit /\ ~above(dir).hit
      tryRight == lq.hit /\ ~rq.hit
      tryLeft == ~tryRight /\ rq.hit /\ ~lq.hit
      dir == IF tryRight THEN 1 ELSE IF tryLeft THEN -1 ELSE 0
      probes == IF dir = 0 THEN 0 ELSE body(dir).hazard + above(dir).hazard
      go == dir # 0 /\ canWiggle(dir)
  IN [p |-> IF go THEN [p EXCEPT !.x = p.x + dir * wiggleDistance,
                                 !.vy = Min(vyBefore, -Unit)]
            ELSE p,
      hazard |-> lq.hazard + rq.hazard + probes,
      wiggled |-> IF go THEN dir ELSE 0]

\* a variant of Actor.moveY that gives the corner wiggle the y after the sweep
moveY_ProbeAfter(sol, p, dt) ==
  LET moveAmount == TruncDiv(p.vy * dt, Unit)
      sign == Sign(moveAmount)
      m == _move(sol, "y", p.x, p.y, moveAmount)
      q == [p EXCEPT !.y = m.y, !.vy = IF m.hit THEN 0 ELSE p.vy,
                     !.isOnGround = m.hit /\ sign > 0]
      w == IF m.hit /\ sign < 0 THEN tryCornerWiggle(sol, q, q.y, p.vy)
           ELSE [p |-> q, hazard |-> 0, wiggled |-> 0]
  IN [p |-> w.p, hit |-> m.hit, hazard |-> m.hazard + w.hazard, wiggled |-> w.wiggled,
      probes |-> m.probes]

\* a variant of Actor.moveY without the reset of isOnGround before the sweep
moveY_NoReset(sol, p, dt) ==
  LET moveAmount == TruncDiv(p.vy * dt, Unit)
      sign == Sign(moveAmount)
      m == _move(sol, "y", p.x, p.y, moveAmount)
      q == [p EXCEPT !.y = m.y, !.vy = IF m.hit THEN 0 ELSE p.vy,
                     !.isOnGround = @ \/ (m.hit /\ sign > 0)]
      w == IF m.hit /\ sign < 0 THEN tryCornerWiggle(sol, q, p.y, p.vy)
           ELSE [p |-> q, hazard |-> 0, wiggled |-> 0]
  IN [p |-> w.p, hit |-> m.hit, hazard |-> m.hazard + w.hazard, wiggled |-> w.wiggled,
      probes |-> m.probes]

\* Actor.moveY
moveY(sol, p, dt) ==
  LET moveAmount == TruncDiv(p.vy * dt, Unit)
      sign == Sign(moveAmount)
      m == _move(sol, "y", p.x, p.y, moveAmount)
      q == [p EXCEPT !.y = m.y, !.vy = IF m.hit THEN 0 ELSE p.vy,
                     !.isOnGround = m.hit /\ sign > 0]
      w == IF m.hit /\ sign < 0 THEN tryCornerWiggle(sol, q, p.y, p.vy)
           ELSE [p |-> q, hazard |-> 0, wiggled |-> 0]
  IN [p |-> w.p, hit |-> m.hit, hazard |-> m.hazard + w.hazard, wiggled |-> w.wiggled,
      probes |-> m.probes]

---------------------------------------------------------------------------
\* Player fields (Actor fields included); jumpState is flattened
FreshPlayer ==
  [x |-> spawnX, y |-> spawnY, vx |-> 0, vy |-> 0,
   isOnGround |-> FALSE, wasOnGround |-> FALSE, inputX |-> 0,
   facingDir |-> 1, isSkidding |-> FALSE, jumpHeld |-> FALSE,
   isSquashing |-> FALSE, playedLandingSquash |-> FALSE, buffer |-> 0,
   timeSinceGrounded |-> Infinity, lastFallSpeed |-> 0, animState |-> "Idle"]

\* a variant of Actor.dampen with ten times the factor (1.35 on the ground,
\* 3.0 in the air)
dampen_TenFold(current, target, factor) ==
  current + TruncDiv((target - current) * factor * 10, Unit * Unit)

\* a variant of Actor.dampen that approaches the target at a constant rate
dampen_Linear(current, target, factor) ==
  current + Sign(target - current) * TruncDiv(factor, Unit)

\* Actor.dampen, the factor in 1/1000000
dampen(current, target, factor) == current + TruncDiv((target - current) * factor, Unit * Unit)

\* a variant of the gravity that does not look at the jump button
gravityFactor_NoEarlyRelease(vy, jumpHeld) ==
  IF vy < 0
  THEN IF Abs(vy) < peakSpeed
       THEN TruncDiv(gravity * gravityUpMultiplier * peakGravityFactor, Unit * Unit)
       ELSE TruncDiv(gravity * gravityUpMultiplier, Unit)
  ELSE gravity

\* the gravity added per frame (step 6 of Actor.updateMovementPhysics)
gravityFactor(vy, jumpHeld) ==
  IF vy < 0
  THEN IF ~jumpHeld /\ shortHopEnabled
       THEN TruncDiv(gravity * gravityUpMultiplier * earlyReleaseGravityMultiplier, Unit * Unit)
       ELSE IF Abs(vy) < peakSpeed
            THEN TruncDiv(gravity * gravityUpMultiplier * peakGravityFactor, Unit * Unit)
            ELSE TruncDiv(gravity * gravityUpMultiplier, Unit)
  ELSE gravity

\* Actor.updateMovementPhysics
updateMovementPhysics(p, dt) ==
  LET topSpeed == IF p.isOnGround THEN maxSpeedX
                  ELSE TruncDiv(maxSpeedX * airSpeedFactor, Unit)
      targetVx == p.inputX * topSpeed
      base == IF p.isOnGround THEN easeGround ELSE easeAir
      easeFactor == IF p.inputX # 0 /\ Sign(p.inputX) # Sign(p.vx)
                    THEN base * easeTurnMultiplier ELSE base * Unit
      justLanded == ~p.wasOnGround /\ p.isOnGround
      snapToGroundSpeed ==
        /\ justLanded
        /\ Abs(p.vx) > TruncDiv(maxSpeedX * airSpeedFactor, Unit)
        /\ Abs(p.vx - targetVx) < Unit
  IN [p |-> [p EXCEPT
               !.wasOnGround = p.isOnGround,
               !.vx = IF snapToGroundSpeed THEN p.inputX * maxSpeedX
                      ELSE dampen(p.vx, targetVx, easeFactor),
               !.vy = p.vy + TruncDiv(gravityFactor(p.vy, p.jumpHeld) * dt, Unit)],
      justLanded |-> justLanded]

\* Actor.applyJump
applyJump(p, forceY) == [p EXCEPT !.vy = forceY, !.isOnGround = FALSE]

\* Player.move; skid = the direction given to a new skid timeout, 0 if none
move(p, dir) ==
  LET isReversing ==
        /\ p.isOnGround
        /\ dir # 0
        /\ Sign(p.vx) # dir
        /\ Abs(p.vx) > turnThreshold
      skid == isReversing /\ ~p.isSkidding
      q == IF skid
           THEN [p EXCEPT !.isSkidding = TRUE, !.animState = "Skid"]
           ELSE [p EXCEPT !.inputX = dir]
  IN [p |-> IF dir # 0 THEN [q EXCEPT !.facingDir = dir] ELSE q,
      skid |-> IF skid THEN dir ELSE 0]

\* a variant of Player.jump that applies the impulse at once when grounded
jump_Immediate(p) ==
  IF p.isOnGround THEN [p EXCEPT !.vy = -jumpForce, !.isOnGround = FALSE]
  ELSE [p EXCEPT !.buffer = jumpBufferMs]

\* Player.jump
jump(p) == [p EXCEPT !.buffer = jumpBufferMs]

\* Player.resetState (with Actor.resetState)
resetState(p) ==
  [p EXCEPT !.vx = 0, !.vy = 0, !.inputX = 0, !.isOnGround = FALSE,
            !.jumpHeld = FALSE, !.isSquashing = FALSE,
            !.playedLandingSquash = FALSE, !.buffer = 0,
            !.timeSinceGrounded = Infinity, !.lastFallSpeed = 0]

\* a variant of Player.updateJumpTimers whose clock, never yet set, starts to
\* count from 0
updateJumpTimers_FiniteStart(p, dt) ==
  [p EXCEPT
     !.timeSinceGrounded = IF p.isOnGround THEN 0
                           ELSE IF @ = Infinity THEN dt ELSE @ + dt,
     !.buffer = IF @ > 0 THEN @ - dt ELSE @]

\* Player.updateJumpTimers; dt in 1/1000 frame is the program's dt * 1000
updateJumpTimers(p, dt) ==
  [p EXCEPT
     !.timeSinceGrounded = IF p.isOnGround THEN 0
                           ELSE IF @ = Infinity THEN Infinity ELSE @ + dt,
     !.buffer = IF @ > 0 THEN @ - dt ELSE @]

\* a variant of the test of Player.tryStartJump that admits the end of the
\* coyote window (timeSinceGrounded = coyoteTimeMs)
canStartJump_AtBoundary(p) ==
  /\ p.buffer > 0
  /\ p.isOnGround \/ p.timeSinceGrounded <= coyoteTimeMs
  /\ ~p.isSquashing

\* a variant without the isSquashing guards of tryStartJump and startJump
canStartJump_Reentrant(p) ==
  /\ p.buffer > 0
  /\ p.isOnGround \/ p.timeSinceGrounded < coyoteTimeMs

\* Player.tryStartJump: bufferedJumpStarted
canStartJump(p) ==
  /\ p.buffer > 0
  /\ p.isOnGround \/ p.timeSinceGrounded < coyoteTimeMs
  /\ ~p.isSquashing

\* Player.tryStartJump with Player.startJump: started = a jump sequence is played
tryStartJump(p) ==
  IF canStartJump(p)
  THEN [p |-> [p EXCEPT !.buffer = 0, !.isSquashing = TRUE,
                        !.timeSinceGrounded = coyoteTimeMs],
        started |-> TRUE]
  ELSE [p |-> p, started |-> FALSE]

\* Player.getLandingImpact, in 1/1000
getLandingImpact(p) ==
  LET fallSpeed == p.lastFallSpeed
      threshold == gravity * 16
      maxSafeFall == gravity * 24
  IN IF fallSpeed > maxSafeFall THEN Unit
     ELSE IF fallSpeed < threshold THEN 0
     ELSE TruncDiv((fallSpeed - threshold) * Unit, maxSafeFall - threshold)

\* a variant of Player.updateAnimationStateFromPhysics without the early
\* return for a skid
updateAnimationStateFromPhysics_NoSkid(p) ==
  [p EXCEPT !.animState =
     IF p.vy < 0 THEN "Jump"
     ELSE IF p.vy > 0 THEN "Fall"
     ELSE IF Abs(p.vx) > moveThreshold THEN "Walk"
     ELSE "Idle"]

\* Player.updateAnimationStateFromPhysics
updateAnimationStateFromPhysics(p) ==
  [p EXCEPT !.animState =
     IF p.isSkidding THEN "Skid"
     ELSE IF p.vy < 0 THEN "Jump"
     ELSE IF p.vy > 0 THEN "Fall"
     ELSE IF Abs(p.vx) > moveThreshold THEN "Walk"
     ELSE "Idle"]

\* a variant of the tail of Player.update whose landing squash does not look
\* at isSquashing
UpdateTail_SquashDuringJump(m, t, justLanded, hazard) ==
  LET j == tryStartJump(t)
      squash == /\ justLanded
                /\ ~j.p.playedLandingSquash
                /\ getLandingImpact(j.p) * 10 > Unit
      q == [j.p EXCEPT !.playedLandingSquash =
              IF ~j.p.isOnGround THEN FALSE ELSE IF squash THEN TRUE ELSE @]
  IN [p |-> updateAnimationStateFromPhysics(q),
      hazard |-> hazard,
      started |-> j.started,
      landingSquash |-> squash,
      landed |-> m.p.isOnGround,
      justLanded |-> justLanded,
      timed |-> t]

\* Player.update, after the physics: the timers, the jump, the landing squash
\* and the animation state.  m is the result of moveY, t the player after
\* updateJumpTimers.
UpdateTail(m, t, justLanded, hazard) ==
  LET j == tryStartJump(t)
      squash == /\ justLanded
                /\ ~j.p.isSquashing
                /\ ~j.p.playedLandingSquash
                /\ getLandingImpact(j.p) * 10 > Unit
      q == [j.p EXCEPT !.playedLandingSquash =
              IF ~j.p.isOnGround THEN FALSE ELSE IF squash THEN TRUE ELSE @]
  IN [p |-> updateAnimationStateFromPhysics(q),
      hazard |-> hazard,
      started |-> j.started,
      landingSquash |-> squash,
      landed |-> m.p.isOnGround,
      justLanded |-> justLanded,
      timed |-> t]

UpdateSweep(sol, u, mx, dt) ==
  LET my(a) == moveY(sol, a, dt)
      tail(m) == UpdateTail(m, updateJumpTimers(m.p, dt), u.justLanded, mx.hazard + m.hazard)
  IN tail(my(mx.p))

\* Player.update
update(sol, p, dt, spaceHeld) ==
  LET p1 == [p EXCEPT !.jumpHeld = spaceHeld,
                      !.lastFallSpeed = IF p.vy > 0 THEN p.vy ELSE @]
      u == updateMovementPhysics(p1, dt)
  IN UpdateSweep(sol, u, moveX(sol, u.p, dt), dt)

\* TestScreen.handleInput
handleInput(p, held, pressed) ==
  LET dir == IF KeyLeft \in held /\ KeyRight \notin held THEN -1
             ELSE IF KeyRight \in held /\ KeyLeft \notin held THEN 1
             ELSE 0
      m == move(p, dir)
  IN [p |-> IF KeySpace \in pressed THEN jump(m.p) ELSE m.p,
      skid |-> m.skid,
      requested |-> KeySpace \in pressed]


---------------------------------------------------------------------------
VARIABLES
  \* KeyboardInput
  heldKeys, pressedKeys, pressBuffer, active,
  \* the environment: the keys that are physically down
  physDown,
  \* TestScreen
  paused, solids, cur, playerDestroyed, respawn,
  \* the Player objects by generation; players[cur] is TestScreen.player
  players,
  \* deferred callbacks: pending setTimeout of triggerTurnSkid, and the
  \* jump sequences played by Actions.play
  skidTimers, jumpSeqs,
  \* observation: hazard callback invocations per player generation, what
  \* the last step did, and the step counters that bound the model
  hazardCalls, obs, count

vars == <<heldKeys, pressedKeys, pressBuffer, active, physDown, paused, solids,
          cur, playerDestroyed, respawn, players, skidTimers, jumpSeqs,
          hazardCalls, obs, count>>

kbVars == <<heldKeys, pressedKeys, pressBuffer, active, physDown>>
screenVars == <<paused, cur, playerDestroyed, respawn>>
deferredVars == <<skidTimers, jumpSeqs>>

Gens == 0 .. MaxRespawns

ZeroCount == [frames |-> 0, keyEvents |-> 0, sweeps |-> 0, kbSteps |-> 0,
              queries |-> 0, pauses |-> 0, odd |-> 0, calls |-> 0]

\* the state after construction of KeyboardInput, TestScreen and Player
InitCommon ==
  /\ heldKeys = {} /\ pressedKeys = {} /\ pressBuffer = {} /\ active = TRUE
  /\ physDown = {}
  /\ paused = FALSE /\ cur = 0 /\ playerDestroyed = FALSE /\ respawn = "idle"
  /\ skidTimers = <<>> /\ jumpSeqs = <<>>
  /\ hazardCalls = [g \in Gens |-> 0]
  /\ count = ZeroCount

---------------------------------------------------------------------------
\* The sweep on its own: an actor placed in a world, given a velocity, and
\* moved by moveX then moveY (the two calls of Player.update).

\* a thin floor and a thin wall (thickness = the sub-step), a ceiling corner
\* over the actor's left shoulder, spikes under the floor, a hazard post
SweepWorld ==
  << Solid(150, 194, 100, 1, FALSE),
     Solid(240, 100, 1, 94, FALSE),
     Solid(150, 126, 36, 6, FALSE),
     Solid(100, 195, 200, 10, TRUE),
     Solid(170, 140, 1, 50, TRUE) >>

Reverse(s) == [i \in 1 .. Len(s) |-> s[Len(s) + 1 - i]]

SweepWorlds == {SweepWorld, Reverse(SweepWorld)}
SweepStartX == {200 * Unit, 200 * Unit + Unit \div 2}
SweepStartY == {200 * Unit, 196 * Unit}
\* velocities: faster than a solid and the hitbox are wide, walking speed
\* with a fractional last sub-step, a fraction of a sub-step, rest
FastVel == 60 * Unit
SweepVel == {-FastVel, -3 * Unit - Unit \div 2, 0, Unit \div 2, FastVel}
HitboxOverlaps(p, s) ==
  LET b == getSolidBox(p.x, p.y) IN Overlaps(b.x, b.y, b.width, b.height, s)

InitSweep ==
  /\ InitCommon
  /\ obs = [kind |-> "none"]
  /\ solids \in SweepWorlds
  /\ \E x \in SweepStartX, y \in SweepStartY :
       players = [g \in Gens |-> [FreshPlayer EXCEPT !.x = x, !.y = y]]
  /\ \A i \in 1 .. Len(solids) : ~HitboxOverlaps(players[0], solids[i])

\* moveX then moveY of actor p given the velocity (vx, vy), dt = 1
SweepResult(sol, p, vx, vy) ==
  LET p0 == [p EXCEPT !.vx = vx, !.vy = vy]
      mx == moveX(sol, p0, Unit)
      my == moveY(sol, mx.p, Unit)
  IN [p |-> my.p,
      obs |-> [kind |-> "sweep", vx |-> vx, vy |-> vy, hitX |-> mx.hit, hitY |-> my.hit,
               wiggled |-> my.wiggled, hazard |-> mx.hazard + my.hazard,
               probesY |-> my.probes, groundedBefore |-> p.isOnGround,
               xMid |-> mx.p.x, yBefore |-> p.y]]

SweepApply(r) ==
  /\ players' = [players EXCEPT ![0] = r.p]
  /\ obs' = r.obs

\* one tick's sweep of the actor
Sweep(vx, vy) ==
  /\ count.sweeps < MaxSweeps
  /\ SweepApply(SweepResult(solids, players[0], vx, vy))
  /\ count' = [count EXCEPT !.sweeps = @ + 1]
  /\ UNCHANGED <<kbVars, screenVars, solids, deferredVars, hazardCalls>>

NextSweep == \E vx \in SweepVel, vy \in SweepVel : Sweep(vx, vy)

SpecSweep == InitSweep /\ [][NextSweep]_vars

---------------------------------------------------------------------------
\* C1: no tunneling.  An actor whose hitbox overlaps no solid before the
\* tick overlaps none after moveX and moveY, and no solid that was on one
\* side of the hitbox along the swept axis is on the other side afterwards
\* (neither by the horizontal sweep, nor by the vertical sweep, nor by the
\* corner wiggle that may end it).
NoOverlap == \A i \in 1 .. Len(solids) : ~HitboxOverlaps(players[0], solids[i])

\* the hitbox at xa is on one side of s, at xb on the other, at height y
PassedX(s, xa, xb, y) ==
  LET a == getSolidBox(xa, y)
      b == getSolidBox(xb, y)
  IN /\ a.y + a.height > s.y /\ a.y < s.y + s.h
     /\ \/ a.x + a.width <= s.x /\ b.x >= s.x + s.w
        \/ a.x >= s.x + s.w /\ b.x + b.width <= s.x

PassedY(s, x, ya, yb) ==
  LET a == getSolidBox(x, ya)
      b == getSolidBox(x, yb)
  IN /\ a.x + a.width > s.x /\ a.x < s.x + s.w
     /\ \/ a.y + a.height <= s.y /\ b.y >= s.y + s.h
        \/ a.y >= s.y + s.h /\ b.y + b.height <= s.y

\* from (x0, y0) by the horizontal sweep to (xm, y0), by the vertical sweep
\* to (xm, y1), by the wiggle to (x1, y1)
NotPassed(sol, x0, y0, xm, x1, y1) ==
  \A i \in 1 .. Len(sol) :
    /\ ~PassedX(sol[i], x0, xm, y0)
    /\ ~PassedY(sol[i], xm, y0, y1)
    /\ ~PassedX(sol[i], xm, x1, y1)

NoTunnelingStep ==
  /\ NoOverlap'
  /\ obs'.kind = "sweep" /\ count'.sweeps = count.sweeps + 1 =>
       NotPassed(solids, players[0].x, players[0].y,
                 players'[0].x - obs'.wiggled * wiggleDistance,
                 players'[0].x, players'[0].y)

NoTunneling == [][NoTunnelingStep]_vars

\* a sweep faster than the solids are thick was blocked on both axes
NoTunnelingWitness ==
  /\ obs.kind = "sweep"
  /\ obs.vx = FastVel /\ obs.hitX
  /\ obs.vy = FastVel /\ obs.hitY

---------------------------------------------------------------------------
\* The collision checker on its own: TestScreen.collidesAt called with a
\* rectangle, for every order of the solids in TestScreen.solids.

\* a floor, spikes under and beside it, a hazard post
QueryWorld ==
  << Solid(150, 194, 100, 1, FALSE),
     Solid(100, 195, 200, 10, TRUE),
     Solid(170, 140, 1, 50, TRUE) >>

QueryWorlds ==
  {[i \in 1 .. Len(QueryWorld) |-> QueryWorld[f[i]]] : f \in Permutations(1 .. Len(QueryWorld))}

\* query rectangles <<x, y, w, h>>: over the floor and the spikes, over the
\* spikes alone, over the floor alone, in free space, over the post, over
\* the post, the floor and the spikes, touching the spikes' edge, and the
\* spawned hitbox
QueryRects == {<<160, 190, 10, 10>>, <<160, 196, 10, 4>>, <<160, 190, 10, 4>>,
               <<200, 150, 10, 10>>, <<165, 150, 10, 10>>, <<165, 180, 10, 20>>,
               <<90, 196, 10, 4>>, <<184, 136, 32, 56>>}

InitQuery ==
  /\ InitCommon
  /\ obs = [kind |-> "none"]
  /\ solids \in QueryWorlds
  /\ players = [g \in Gens |-> FreshPlayer]

\* one call of the collision checker
QueryApply(r, q) ==
  obs' = [kind |-> "query", x |-> r[1] * Unit, y |-> r[2] * Unit,
          w |-> r[3] * Unit, h |-> r[4] * Unit, hit |-> q.hit, hazard |-> q.hazard]

Query(r) ==
  /\ count.queries < MaxQueries
  /\ QueryApply(r, collidesAt(solids, r[1] * Unit, r[2] * Unit, r[3] * Unit, r[4] * Unit))
  /\ count' = [count EXCEPT !.queries = @ + 1]
  /\ UNCHANGED <<kbVars, screenVars, solids, players, deferredVars, hazardCalls>>

NextQuery == \E r \in QueryRects : Query(r)

SpecQuery == InitQuery /\ [][NextQuery]_vars

\* C3: a query whose rectangle overlaps a hazard solid invokes the hazard
\* callback (and returns blocked), whatever else it overlaps and whatever
\* the order of the solids.
OverlapsHazard(sol, x, y, w, h) ==
  \E i \in 1 .. Len(sol) : sol[i].isHazard /\ Overlaps(x, y, w, h, sol[i])

HazardQueryCallsBack ==
  obs.kind = "query" /\ OverlapsHazard(solids, obs.x, obs.y, obs.w, obs.h)
    => obs.hit /\ obs.hazard = 1

---------------------------------------------------------------------------
\* KeyboardInput on its own, with the keys of the environment.
\* obs.edges: the keys that went from up to down, while input was active,
\* since the last update(); obs.prevEdges: those of the interval before it.

InitKeys ==
  /\ InitCommon
  /\ obs = [kind |-> "none"]
  /\ solids = <<>>
  /\ players = [g \in Gens |-> FreshPlayer]

\* KeyboardInput.handleKeyDown for a keydown event of key k
handleKeyDown(k) ==
  IF ~active THEN UNCHANGED <<heldKeys, pressBuffer>>
  ELSE /\ pressBuffer' = IF k \notin heldKeys THEN pressBuffer \cup {k} ELSE pressBuffer
       /\ heldKeys' = heldKeys \cup {k}

\* KeyboardInput.handleKeyUp
handleKeyUp(k) ==
  IF ~active THEN UNCHANGED heldKeys
  ELSE heldKeys' = heldKeys \ {k}

\* the key goes down, or is down and auto-repeats: a keydown event
KeyDown(k) ==
  /\ physDown' = physDown \cup {k}
  /\ handleKeyDown(k)
  /\ UNCHANGED <<pressedKeys, active>>

\* the key goes up: a keyup event
KeyUp(k) ==
  /\ k \in physDown
  /\ physDown' = physDown \ {k}
  /\ handleKeyUp(k)
  /\ UNCHANGED <<pressedKeys, pressBuffer, active>>

\* KeyboardInput.update
KbUpdate ==
  /\ pressedKeys' = pressBuffer
  /\ pressBuffer' = {}

\* TestScreen.pause (KeyboardInput.pause) and resume
Pause ==
  /\ ~paused
  /\ count.pauses < MaxPauses
  /\ paused' = TRUE
  /\ active' = FALSE
  /\ count' = [count EXCEPT !.pauses = @ + 1]

Resume ==
  /\ paused
  /\ paused' = FALSE
  /\ active' = TRUE

ObsEdges == IF obs.kind = "kb" THEN obs.edges ELSE {}
ObsPrevEdges == IF obs.kind = "kb" THEN obs.prevEdges ELSE {}

KeysKeyDown(k) ==
  /\ count.kbSteps < MaxKbSteps
  /\ KeyDown(k)
  /\ obs' = [kind |-> "kb", prevEdges |-> ObsPrevEdges,
             edges |-> IF k \notin physDown /\ active THEN ObsEdges \cup {k} ELSE ObsEdges]
  /\ count' = [count EXCEPT !.kbSteps = @ + 1]
  /\ UNCHANGED <<screenVars, solids, players, deferredVars, hazardCalls>>

KeysKeyUp(k) ==
  /\ count.kbSteps < MaxKbSteps
  /\ KeyUp(k)
  /\ count' = [count EXCEPT !.kbSteps = @ + 1]
  /\ UNCHANGED <<screenVars, solids, players, deferredVars, hazardCalls, obs>>

\* the part of TestScreen.update that concerns the keyboard
KeysUpdate ==
  /\ ~paused
  /\ count.kbSteps < MaxKbSteps
  /\ KbUpdate
  /\ obs' = [kind |-> "kb", prevEdges |-> ObsEdges, edges |-> {}]
  /\ count' = [count EXCEPT !.kbSteps = @ + 1]
  /\ UNCHANGED <<heldKeys, active, physDown, screenVars, solids, players,
                 deferredVars, hazardCalls>>

KeysPause ==
  /\ Pause
  /\ UNCHANGED <<heldKeys, pressedKeys, pressBuffer, physDown, solids, cur,
                 playerDestroyed, respawn, players, deferredVars, hazardCalls, obs>>

KeysResume ==
  /\ Resume
  /\ UNCHANGED <<heldKeys, pressedKeys, pressBuffer, physDown, solids, cur,
                 playerDestroyed, respawn, players, deferredVars, hazardCalls, obs, count>>

NextKeys ==
  \/ \E k \in Keys : KeysKeyDown(k)
  \/ \E k \in Keys : KeysKeyUp(k)
  \/ KeysUpdate
  \/ KeysPause
  \/ KeysResume

SpecKeys == InitKeys /\ [][NextKeys]_vars

\* C8: isPressedOnce(key) is true in a tick exactly for the keys that went
\* from up to down in the interval before the tick's update(): each such
\* edge is reported in that one tick, and nothing else is reported.
PressedOncePerEdge == pressedKeys = ObsPrevEdges

\* C9: after resume(), isHeld(key) is true exactly for the keys that are
\* physically down.
HeldConsistentAfterResume ==
  active /\ count.pauses > 0 => \A k \in Keys : (k \in heldKeys <=> k \in physDown)

---------------------------------------------------------------------------
\* The game: TestScreen ticking the Player, the keyboard events, the deferred
\* callbacks (skid timeout, jump sequence) and the respawn after a hazard.
\* The timers run on the wall clock and the frames on the ticker, so a
\* pending callback may fire between any two frames.
\*
\* obs (kind "game") describes the last frame of TestScreen.player:
\*   requested, reqTsg, reqGround  jump() was called, and timeSinceGrounded
\*                                 and isOnGround at that call
\*   bufT, tsgT, groundT, squashT  the jump state after updateJumpTimers
\*   started                       tryStartJump played a jump sequence
\*   landing                       the vertical sweep set isOnGround and the
\*                                 actor was not grounded before the frame
\*   sinceReq                      sum of dt * 1000 over the frames since the
\*                                 last jump() call, that of the call included,
\*                                 while that request is not consumed
\*   airborneJump                  an impulse was applied and the actor has
\*                                 not been grounded at the end of a frame since
\*   byJump                        the actor last left the ground by an impulse
NoReq == 0 - 1
ReqCap == jumpBufferMs + 2 * Unit

GameObs(step, gen) ==
  [kind |-> "game", step |-> step, gen |-> gen,
   requested |-> FALSE, reqTsg |-> Infinity, reqGround |-> FALSE,
   bufT |-> 0, tsgT |-> Infinity, groundT |-> FALSE, squashT |-> FALSE,
   started |-> FALSE, landing |-> FALSE, sinceReq |-> NoReq,
   airborneJump |-> FALSE, byJump |-> FALSE, startedInAir |-> FALSE]

\* TestScreen.update after keyboard.update(): handleInput, then Player.update
FrameUpdate(p, h, r) ==
  [p |-> r.p, hazard |-> r.hazard, skid |-> h.skid, started |-> r.started,
   requested |-> h.requested, reqTsg |-> p.timeSinceGrounded, reqGround |-> p.isOnGround,
   timed |-> r.timed, landed |-> r.landed, landing |-> r.landed /\ ~p.isOnGround]

FrameInput(sol, p, h, dt, spaceHeld) == FrameUpdate(p, h, update(sol, h.p, dt, spaceHeld))

FrameResult(sol, p, held, pressed, dt) ==
  FrameInput(sol, p, handleInput(p, held, pressed), dt, KeySpace \in held)

FrameObs(r, dt) ==
  [kind |-> "game", step |-> "frame", gen |-> cur,
   requested |-> r.requested, reqTsg |-> r.reqTsg, reqGround |-> r.reqGround,
   bufT |-> r.timed.buffer, tsgT |-> r.timed.timeSinceGrounded,
   groundT |-> r.timed.isOnGround, squashT |-> r.timed.isSquashing,
   started |-> r.started, landing |-> r.landing,
   sinceReq |-> IF r.requested THEN dt
                ELSE IF obs.sinceReq = NoReq \/ obs.started THEN NoReq
                ELSE Min(obs.sinceReq + dt, ReqCap),
   airborneJump |-> obs.airborneJump /\ ~r.p.isOnGround,
   byJump |-> obs.byJump /\ ~r.landed,
   startedInAir |-> r.started /\ obs.airborneJump /\ ~r.landed]

\* a variant of the hazard callback without the playerDestroyed test
HazardTouched_NoGuard(n) ==
  /\ hazardCalls' = [hazardCalls EXCEPT ![cur] = @ + n]
  /\ IF n > 0
     THEN playerDestroyed' = TRUE /\ respawn' = "delay"
     ELSE UNCHANGED <<playerDestroyed, respawn>>

\* the hazard callback of TestScreen.createPlayer, invoked n times in the
\* frame: destroyAndRespawnPlayer up to its first await
HazardTouched(n) ==
  /\ hazardCalls' = [hazardCalls EXCEPT ![cur] = @ + n]
  /\ IF n > 0 /\ ~playerDestroyed
     THEN playerDestroyed' = TRUE /\ respawn' = "delay"
     ELSE UNCHANGED <<playerDestroyed, respawn>>

FrameApply(r, dt) ==
  /\ players' = [players EXCEPT ![cur] = r.p]
  /\ skidTimers' = IF r.skid # 0
                   THEN Append(skidTimers, [owner |-> cur, dir |-> r.skid])
                   ELSE skidTimers
  /\ jumpSeqs' = IF r.started
                 THEN Append(jumpSeqs, [owner |-> cur, phase |-> "squash"])
                 ELSE jumpSeqs
  /\ HazardTouched(r.hazard)
  /\ obs' = FrameObs(r, dt)

\* TestScreen.update: one ticker frame with deltaTime dt
Tick(dt) ==
  /\ ~paused
  /\ KbUpdate
  /\ FrameApply(FrameResult(solids, players[cur], heldKeys, pressBuffer, dt), dt)
  /\ count' = [count EXCEPT !.frames = @ + 1, !.odd = IF dt = Unit THEN @ ELSE @ + 1]
  /\ UNCHANGED <<heldKeys, active, physDown, paused, solids, cur>>

\* keydown and keyup events of the window
KeyDownEvent(k, max) ==
  /\ count.keyEvents < max
  /\ KeyDown(k)
  /\ count' = [count EXCEPT !.keyEvents = @ + 1]
  /\ UNCHANGED <<screenVars, solids, players, deferredVars, hazardCalls, obs>>

KeyUpEvent(k, max) ==
  /\ count.keyEvents < max
  /\ KeyUp(k)
  /\ count' = [count EXCEPT !.keyEvents = @ + 1]
  /\ UNCHANGED <<screenVars, solids, players, deferredVars, hazardCalls, obs>>

GameKeyDown(k) == KeyDownEvent(k, MaxKeyEvents)
GameKeyUp(k) == KeyUpEvent(k, MaxKeyEvents)

\* the setTimeout callback of Player.triggerTurnSkid: timers of equal delay
\* fire in the order they were set
SkidTimeoutApply(t, m) ==
  /\ players' = [players EXCEPT ![t.owner] = [m.p EXCEPT !.animState = "Walk"]]
  /\ skidTimers' = IF m.skid # 0
                   THEN Append(Tail(skidTimers), [owner |-> t.owner, dir |-> m.skid])
                   ELSE Tail(skidTimers)

SkidTimeoutOf(t) ==
  SkidTimeoutApply(t, move([players[t.owner] EXCEPT !.isSkidding = FALSE], t.dir))

SkidTimeout ==
  /\ skidTimers # <<>>
  /\ SkidTimeoutOf(Head(skidTimers))
  /\ UNCHANGED <<kbVars, screenVars, solids, jumpSeqs, hazardCalls, obs, count>>

\* the jump sequence of Player.startJump: the first runFunc, after the squash
JumpImpulse(i) ==
  /\ i \in 1 .. Len(jumpSeqs)
  /\ jumpSeqs[i].phase = "squash"
  /\ players' = [players EXCEPT ![jumpSeqs[i].owner] = applyJump(@, -jumpForce)]
  /\ jumpSeqs' = [jumpSeqs EXCEPT ![i].phase = "stretch"]
  /\ obs' = IF obs.kind = "game" /\ obs.gen = jumpSeqs[i].owner
            THEN [obs EXCEPT !.airborneJump = TRUE, !.byJump = TRUE]
            ELSE obs
  /\ UNCHANGED <<kbVars, screenVars, solids, skidTimers, hazardCalls, count>>

\* a variant of the end of the sequence without its last runFunc
JumpSeqEnd_NoClear(i) ==
  /\ i \in 1 .. Len(jumpSeqs)
  /\ jumpSeqs[i].phase = "stretch"
  /\ jumpSeqs' = [j \in 1 .. Len(jumpSeqs) - 1 |->
                    IF j < i THEN jumpSeqs[j] ELSE jumpSeqs[j + 1]]
  /\ UNCHANGED <<kbVars, screenVars, solids, players, skidTimers, hazardCalls,
                 obs, count>>

\* the last runFunc of the sequence, after the delay, stretch and normalize
JumpSeqEnd(i) ==
  /\ i \in 1 .. Len(jumpSeqs)
  /\ jumpSeqs[i].phase = "stretch"
  /\ players' = [players EXCEPT ![jumpSeqs[i].owner].isSquashing = FALSE]
  /\ jumpSeqs' = [j \in 1 .. Len(jumpSeqs) - 1 |->
                    IF j < i THEN jumpSeqs[j] ELSE jumpSeqs[j + 1]]
  /\ UNCHANGED <<kbVars, screenVars, solids, skidTimers, hazardCalls, obs, count>>

\* TestScreen.destroyAndRespawnPlayer after "await delay(150)": createPlayer
\* up to its await
DelayElapsed ==
  /\ respawn = "delay"
  /\ respawn' = "loading"
  /\ UNCHANGED <<kbVars, paused, solids, cur, playerDestroyed, players,
                 deferredVars, hazardCalls, obs, count>>

\* TestScreen.createPlayer after "await Player.loadSpritesheet()", and the
\* end of destroyAndRespawnPlayer
PlayerLoaded ==
  /\ respawn = "loading"
  /\ cur < MaxRespawns
  /\ cur' = cur + 1
  /\ players' = [players EXCEPT ![cur + 1] = FreshPlayer]
  /\ playerDestroyed' = FALSE
  /\ respawn' = "idle"
  /\ obs' = GameObs("loaded", cur + 1)
  /\ UNCHANGED <<kbVars, paused, solids, deferredVars, hazardCalls, count>>

GamePause ==
  /\ Pause
  /\ UNCHANGED <<heldKeys, pressedKeys, pressBuffer, physDown, solids, cur,
                 playerDestroyed, respawn, players, deferredVars, hazardCalls, obs>>

GameResume ==
  /\ Resume
  /\ UNCHANGED <<heldKeys, pressedKeys, pressBuffer, physDown, solids, cur,
                 playerDestroyed, respawn, players, deferredVars, hazardCalls, obs, count>>

\* The collision checker is injected into the actor (setCollisionChecker), so
\* the level is an input of the Player; TestScreen.show builds one of four
\* platforms and a death zone.  The levels here have the same kinds of
\* solids, placed so that the cases happen within the bounds.
\* A platform one unit under the spawn point and a hazard wall two units to
\* the right of the spawned hitbox.
GameLevel ==
  << Solid(150, 193, 100, 6, FALSE),
     Solid(218, 100, 10, 93, TRUE) >>

InitGame ==
  /\ InitCommon
  /\ obs = GameObs("init", 0)
  /\ solids = GameLevel
  /\ players = [g \in Gens |-> FreshPlayer]

GameFrame ==
  /\ count.frames < MaxFrames
  /\ Tick(Unit)

NextGame ==
  \/ \E k \in Keys : GameKeyDown(k)
  \/ \E k \in Keys : GameKeyUp(k)
  \/ GameFrame
  \/ SkidTimeout
  \/ \E i \in 1 .. MaxFrames : JumpImpulse(i)
  \/ \E i \in 1 .. MaxFrames : JumpSeqEnd(i)
  \/ DelayElapsed
  \/ PlayerLoaded
  \/ GamePause
  \/ GameResume

SpecGame == InitGame /\ [][NextGame]_vars

\* C2: the hazard callback is invoked once per contact episode.  A player
\* that touches a hazard is removed and never leaves the contact it died in,
\* so the callback of each player is invoked at most once.
HazardOncePerContact == \A g \in Gens : hazardCalls[g] <= 1

\* C7: once a jump has executed (the impulse was applied), no jump sequence
\* starts before the actor has been grounded again at the end of a frame.
NoSecondJumpBeforeLanding == obs.kind = "game" => ~obs.startedInAir

\* the state of a Player that the deferred callbacks write
CallbackState(p) ==
  <<p.isSkidding, p.inputX, p.vy, p.isOnGround, p.isSquashing,
    p.playedLandingSquash, p.buffer, p.timeSinceGrounded, p.lastFallSpeed>>

\* C10: once a Player has been removed by a hazard death and replaced by the
\* respawn, no step changes the state the deferred callbacks write.
RemovedPlayerUntouchedStep ==
  \A g \in Gens : g < cur => CallbackState(players'[g]) = CallbackState(players[g])

RemovedPlayerUntouched == [][RemovedPlayerUntouchedStep]_vars

---------------------------------------------------------------------------
\* The jump timers at their boundaries: frames of unequal deltaTime, a ledge
\* to walk off and a drop to fall.

\* a platform under the spawn point that ends one unit right of the
\* hitbox's left edge
LedgeLevel == << Solid(150, 193, 35, 6, FALSE) >>
\* a platform 34 units under the spawned hitbox
DropLevel == << Solid(150, 226, 100, 6, FALSE) >>

TimingLevels == {LedgeLevel, DropLevel}
TimingKeys == {KeyRight, KeySpace}
\* ticker.deltaTime: one frame, or a shorter frame
DeltaTimes == {Unit, Unit - 1, Unit \div 2, Unit \div 2 + 1}

InitTiming ==
  /\ InitCommon
  /\ obs = GameObs("init", 0)
  /\ solids \in TimingLevels
  /\ players = [g \in Gens |-> FreshPlayer]

TimingKeyDown(k) == KeyDownEvent(k, MaxTimingKeyEvents)
TimingKeyUp(k) == KeyUpEvent(k, MaxTimingKeyEvents)

TimedFrame(dt) ==
  /\ count.frames < MaxTimingFrames
  /\ dt = Unit \/ count.odd < MaxOddFrames
  /\ Tick(dt)

NextTiming ==
  \/ \E k \in TimingKeys : TimingKeyDown(k)
  \/ \E k \in TimingKeys : TimingKeyUp(k)
  \/ \E dt \in DeltaTimes : TimedFrame(dt)
  \/ \E i \in 1 .. MaxTimingFrames : JumpImpulse(i)
  \/ \E i \in 1 .. MaxTimingFrames : JumpSeqEnd(i)

SpecTiming == InitTiming /\ [][NextTiming]_vars

\* C4: a jump sequence starts in a frame exactly when, after the frame's
\* timer update, buffer > 0 and (isOnGround or timeSinceGrounded <
\* coyoteTimeMs) and not isSquashing; the start leaves buffer = 0 and
\* timeSinceGrounded = coyoteTimeMs.
JumpStartRule ==
  obs.kind = "game" /\ obs.step = "frame" =>
    /\ obs.started <=> /\ obs.bufT > 0
                       /\ obs.groundT \/ obs.tsgT < coyoteTimeMs
                       /\ ~obs.squashT
    /\ obs.started => /\ players[obs.gen].buffer = 0
                      /\ players[obs.gen].timeSinceGrounded = coyoteTimeMs

\* a jump started in the air in the last millisecond of the coyote window
JumpStartRuleWitness ==
  /\ obs.kind = "game" /\ obs.step = "frame"
  /\ obs.started /\ ~obs.groundT /\ obs.tsgT = coyoteTimeMs - 1
  /\ players[obs.gen].buffer = 0
  /\ players[obs.gen].timeSinceGrounded = coyoteTimeMs

\* C5: for an actor that left the ground without jumping, a jump requested
\* when timeSinceGrounded = coyoteTimeMs - 1 is started in the air, and one
\* requested when timeSinceGrounded = coyoteTimeMs + 1 is not started before
\* the actor is grounded.
CoyoteBoundary ==
  /\ obs.kind = "game" /\ obs.step = "frame"
  /\ obs.requested /\ ~obs.reqGround /\ ~obs.byJump /\ ~obs.squashT
  => /\ obs.reqTsg = coyoteTimeMs - 1 => obs.started
     /\ obs.reqTsg = coyoteTimeMs + 1 => (obs.started => obs.groundT)

\* C6: a jump requested jumpBufferMs before the landing is started in the
\* landing frame, and one requested jumpBufferMs + 1 before it is not.
BufferBoundary ==
  obs.kind = "game" /\ obs.step = "frame" /\ obs.landing /\ ~obs.squashT =>
    /\ obs.sinceReq = jumpBufferMs => obs.started
    /\ obs.sinceReq = jumpBufferMs + 1 => ~obs.started

---------------------------------------------------------------------------
\* Further properties of the game (SpecGame).

\* the Player state named by the pause requirement
PauseState(p) == <<p.isSkidding, p.inputX, p.vx, p.vy, p.isOnGround, p.isSquashing>>

\* C11: between TestScreen.pause() and TestScreen.resume() no Player state
\* changes, whether by a frame or by a deferred callback.
PausedPlayerFrozenStep ==
  paused /\ paused' => \A g \in Gens : PauseState(players'[g]) = PauseState(players[g])

PausedPlayerFrozen == [][PausedPlayerFrozenStep]_vars

\* the animation state by the fixed priority Skid > Jump > Fall > Walk > Idle
DerivedAnimState(p) ==
  CASE p.isSkidding -> "Skid"
    [] ~p.isSkidding /\ p.vy < 0 -> "Jump"
    [] ~p.isSkidding /\ p.vy > 0 -> "Fall"
    [] ~p.isSkidding /\ p.vy = 0 /\ Abs(p.vx) > moveThreshold -> "Walk"
    [] OTHER -> "Idle"

\* C12: after every Player.update() animState is the one derived from the
\* physics state by the fixed priority, whatever it was before the update
\* (a skid timeout may have set it to Walk in between).
AnimStateDerivedStep ==
  count'.frames = count.frames + 1 =>
    players'[cur].animState = DerivedAnimState(players'[cur])

AnimStateDerived == [][AnimStateDerivedStep]_vars

\* a frame has ended with the player skidding while it moves: Skid wins
\* over Walk
AnimStateDerivedWitness ==
  /\ obs.kind = "game" /\ obs.step = "frame"
  /\ players[obs.gen].isSkidding /\ players[obs.gen].animState = "Skid"
  /\ Abs(players[obs.gen].vx) > moveThreshold

\* C19: applyJump called on an actor that is not grounded leaves vel.y and
\* isOnGround unchanged.  The calls are those of the jump sequence.
ImpulseStepOf(i) ==
  /\ i <= Len(jumpSeqs) /\ Len(jumpSeqs') = Len(jumpSeqs)
  /\ jumpSeqs[i].phase = "squash" /\ jumpSeqs'[i].phase = "stretch"

ApplyJumpOnlyGroundedStep ==
  \A i \in 1 .. MaxFrames :
    ImpulseStepOf(i) /\ ~players[jumpSeqs[i].owner].isOnGround =>
      /\ players'[jumpSeqs[i].owner].vy = players[jumpSeqs[i].owner].vy
      /\ players'[jumpSeqs[i].owner].isOnGround = players[jumpSeqs[i].owner].isOnGround

ApplyJumpOnlyGrounded == [][ApplyJumpOnlyGroundedStep]_vars

---------------------------------------------------------------------------
\* The Player driven through its public methods (moveLeft, moveRight, stop,
\* jump, update) by any caller, with its deferred callbacks.
\*
\* obs (kind "run"):
\*   call           the method called by the last step, if it was a call
\*   dir            the direction passed to move by the last step, if it was
\*                  moveLeft(), moveRight() or stop()
\*   lastDir        direction of the last moveLeft() / moveRight() call
\*                  (Right before the first)
\*   runTicks       frames since moveRight() was called on an actor at rest
\*                  (see AtRest), while no other call was made (NoRun if
\*                  there is no such run)
\*   airTicks       consecutive frames that ended airborne (counted up to 3)
\*   justLanded     the value returned by updateMovementPhysics in the last
\*                  frame
\*   landingSquash  the last frame played the landing squash
\*   everGrounded   some frame so far has ended with the player grounded
\*   squashDone     the landing squash was played and every frame since has
\*                  ended grounded
NoRun == 0 - 1
RunTicksCap == 30

RunObs(step) ==
  [kind |-> "run", step |-> step, call |-> "none", dir |-> 0, lastDir |-> 1, runTicks |-> NoRun,
   airTicks |-> 0, justLanded |-> FALSE, landingSquash |-> FALSE,
   everGrounded |-> FALSE, squashDone |-> FALSE]

\* the level: a long platform one unit under the spawned hitbox, or 100 units
\* under it (a fall of 20 frames that ends flush on the platform)
FlatLevel == << Solid(0, 193, 400, 6, FALSE) >>
DeepLevel == << Solid(0, 292, 400, 6, FALSE) >>

\* the actor stands still on the ground, no input, no jump buffered, and none
\* of its callbacks is pending
AtRest ==
  /\ players[cur].isOnGround
  /\ players[cur].vx = 0
  /\ players[cur].inputX = 0
  /\ players[cur].buffer <= 0
  /\ \A i \in 1 .. Len(skidTimers) : skidTimers[i].owner # cur
  /\ \A i \in 1 .. Len(jumpSeqs) : jumpSeqs[i].owner # cur

\* Player.moveLeft / moveRight / stop
ApiMoveApply(m, dir) ==
  /\ players' = [players EXCEPT ![cur] = m.p]
  /\ skidTimers' = IF m.skid # 0
                   THEN Append(skidTimers, [owner |-> cur, dir |-> m.skid])
                   ELSE skidTimers
  /\ obs' = [obs EXCEPT
               !.step = "call", !.call = "move", !.dir = dir,
               !.lastDir = IF dir # 0 THEN dir ELSE @,
               !.runTicks = IF dir = 1 /\ AtRest THEN 0 ELSE NoRun]

ApiMove(dir, max) ==
  /\ count.calls < max
  /\ ApiMoveApply(move(players[cur], dir), dir)
  /\ count' = [count EXCEPT !.calls = @ + 1]
  /\ UNCHANGED <<kbVars, screenVars, solids, jumpSeqs, hazardCalls>>

\* Player.jump
ApiJump(max) ==
  /\ count.calls < max
  /\ players' = [players EXCEPT ![cur] = jump(@)]
  /\ obs' = [obs EXCEPT !.step = "call", !.call = "jump", !.dir = 0,
                         !.runTicks = NoRun]
  /\ count' = [count EXCEPT !.calls = @ + 1]
  /\ UNCHANGED <<kbVars, screenVars, solids, deferredVars, hazardCalls>>

\* Player.update(1, keyboard)
ApiFrameApply(r) ==
  /\ players' = [players EXCEPT ![cur] = r.p]
  /\ jumpSeqs' = IF r.started
                 THEN Append(jumpSeqs, [owner |-> cur, phase |-> "squash"])
                 ELSE jumpSeqs
  /\ HazardTouched(r.hazard)
  /\ obs' = [obs EXCEPT
               !.step = "frame", !.call = "none", !.dir = 0,
               !.runTicks = IF @ = NoRun THEN NoRun ELSE Min(@ + 1, RunTicksCap),
               !.airTicks = IF r.p.isOnGround THEN 0 ELSE Min(@ + 1, 3),
               !.justLanded = r.justLanded,
               !.landingSquash = r.landingSquash,
               !.everGrounded = @ \/ r.p.isOnGround,
               !.squashDone = (@ \/ r.landingSquash) /\ r.p.isOnGround]

ApiFrame(max) ==
  /\ count.frames < max
  /\ ApiFrameApply(update(solids, players[cur], Unit, KeySpace \in heldKeys))
  /\ count' = [count EXCEPT !.frames = @ + 1]
  /\ UNCHANGED <<kbVars, paused, solids, cur, skidTimers>>

InitMoves ==
  /\ InitCommon
  /\ obs = RunObs("init")
  /\ solids = FlatLevel
  /\ players = [g \in Gens |-> FreshPlayer]

MovesCall(dir) == ApiMove(dir, MaxMoveCalls)
MovesFrame == ApiFrame(MaxMoveFrames)

NextMoves ==
  \/ \E dir \in {0 - 1, 0, 1} : MovesCall(dir)
  \/ MovesFrame
  \/ SkidTimeout

SpecMoves == InitMoves /\ [][NextMoves]_vars

InitRun ==
  /\ InitCommon
  /\ obs = RunObs("init")
  /\ solids \in {FlatLevel, DeepLevel}
  /\ players = [g \in Gens |-> FreshPlayer]

RunCall(dir) == ApiMove(dir, MaxRunCalls)
RunJump == ApiJump(MaxRunCalls)
RunFrame == ApiFrame(MaxRunFrames)

NextRun ==
  \/ \E dir \in {0 - 1, 0, 1} : RunCall(dir)
  \/ RunJump
  \/ RunFrame
  \/ SkidTimeout
  \/ \E i \in 1 .. MaxRunFrames : JumpImpulse(i)
  \/ \E i \in 1 .. MaxRunFrames : JumpSeqEnd(i)

SpecRun == InitRun /\ [][NextRun]_vars

\* C13: facingDir is the direction of the last moveLeft() / moveRight() call.
FacingLastRequest == obs.kind = "run" => players[cur].facingDir = obs.lastDir

\* C14: |vx| <= maxSpeedX on the ground and |vx| <= maxSpeedX * airSpeedFactor
\* in the air, in every state.
VelocityInvariant ==
  obs.kind = "run" =>
    IF players[cur].isOnGround
    THEN Abs(players[cur].vx) <= maxSpeedX
    ELSE Abs(players[cur].vx) <= TruncDiv(maxSpeedX * airSpeedFactor, Unit)

RunFrameStep == obs.kind = "run" /\ count'.frames = count.frames + 1

\* C15: an actor with inputX = 1 that was airborne for several ticks at the
\* capped airborne speed has vx = maxSpeedX at the end of the tick in which
\* it lands.
GroundSnapStep ==
  /\ RunFrameStep
  /\ players[cur].inputX = 1
  /\ obs.airTicks >= 3
  /\ Abs(players[cur].vx - TruncDiv(maxSpeedX * airSpeedFactor, Unit)) * 100 <= Unit
  /\ ~players[cur].isOnGround
  /\ players'[cur].isOnGround
  => players'[cur].vx = maxSpeedX
GroundSnap == [][GroundSnapStep]_vars

\* C16: during the 30 ticks that follow moveRight() on an actor at rest on
\* the ground, vx never decreases and never exceeds maxSpeedX.
MonotoneRunStep ==
  RunFrameStep /\ obs.runTicks # NoRun /\ obs.runTicks < RunTicksCap
  => /\ players'[cur].vx >= players[cur].vx
     /\ players'[cur].vx <= maxSpeedX
MonotoneRun == [][MonotoneRunStep]_vars

MonotoneRunWitness ==
  /\ obs.kind = "run" /\ obs.step = "frame"
  /\ obs.runTicks = RunTicksCap
  /\ players[cur].isOnGround
  /\ players[cur].vx > TruncDiv(maxSpeedX * airSpeedFactor, Unit)

\* C20: the landing squash starts only if it has not started since the actor
\* last ended a tick off the ground, and only in a tick that leaves no jump
\* sequence of the actor running.
JumpSeqRunning(seqs) == \E i \in 1 .. Len(seqs) : seqs[i].owner = cur

LandingSquashOnceStep ==
  RunFrameStep /\ obs'.landingSquash
  => /\ ~obs.squashDone
     /\ ~JumpSeqRunning(jumpSeqs')
LandingSquashOnce == [][LandingSquashOnceStep]_vars

LandingSquashOnceWitness ==
  /\ obs.kind = "run" /\ obs.step = "frame"
  /\ obs.landingSquash /\ obs.squashDone
  /\ players[cur].playedLandingSquash
  /\ players[cur].isOnGround

---------------------------------------------------------------------------
\* Short hop: two actors in free space ascend from the same vy; actor 0 is
\* updated with the jump button held, actor 1 with the button released.
\*
\* obs (kind "hop"): vy0 the initial vy; apexHeld / apexReleased the number
\* of the first tick after which the actor has vy >= 0 (NoApex before).
NoApex == 0 - 1
HopSpeeds == {(0 - n) * Unit : n \in 1 .. 5}

InitHop ==
  /\ InitCommon
  /\ solids = << >>
  /\ \E v \in HopSpeeds :
       /\ players = [g \in Gens |-> [FreshPlayer EXCEPT !.vy = v]]
       /\ obs = [kind |-> "hop", vy0 |-> v, apexHeld |-> NoApex, apexReleased |-> NoApex]

HopApply(h, r) ==
  /\ players' = [g \in Gens |-> IF g = 0 THEN h.p ELSE IF g = 1 THEN r.p ELSE players[g]]
  /\ obs' = [obs EXCEPT
               !.apexHeld = IF @ = NoApex /\ h.p.vy >= 0 THEN count.frames + 1 ELSE @,
               !.apexReleased = IF @ = NoApex /\ r.p.vy >= 0 THEN count.frames + 1 ELSE @]

\* Player.update(1, keyboard) of both actors
HopTick ==
  /\ count.frames < MaxHopTicks
  /\ HopApply(update(solids, players[0], Unit, TRUE),
              update(solids, players[1], Unit, FALSE))
  /\ count' = [count EXCEPT !.frames = @ + 1]
  /\ UNCHANGED <<kbVars, screenVars, solids, deferredVars, hazardCalls>>

NextHop == HopTick

SpecHop == InitHop /\ [][NextHop]_vars

\* C17: on every tick the actor with the button released gains at least as
\* much vy as the one holding it, and it reaches vy >= 0 in strictly fewer
\* ticks.
ShortHopStep ==
  obs.kind = "hop" /\ count'.frames = count.frames + 1
  => /\ players'[1].vy - players[1].vy >= players'[0].vy - players[0].vy
     /\ obs'.apexHeld # NoApex =>
          obs'.apexReleased # NoApex /\ obs'.apexReleased < obs'.apexHeld
ShortHop == [][ShortHopStep]_vars

ShortHopWitness ==
  /\ obs.kind = "hop"
  /\ obs.vy0 = (0 - 5) * Unit
  /\ obs.apexHeld # NoApex
  /\ obs.apexReleased # NoApex
  /\ players[0].vy >= 0

---------------------------------------------------------------------------
\* An actor that was never wired into a world: checkCollisionFn is still the
\* default () => false, which answers like collidesAt on an empty list of
\* solids.
InitFree ==
  /\ InitCommon
  /\ obs = [kind |-> "none"]
  /\ solids = << >>
  /\ \E x \in SweepStartX, y \in SweepStartY :
       players = [g \in Gens |-> [FreshPlayer EXCEPT !.x = x, !.y = y]]

\* velocities of a player: jump speed up and down, walking speed with a
\* fractional last sub-step, a fraction of a sub-step, rest
FreeVel == {-jumpForce, -3 * Unit - Unit \div 2, 0, Unit \div 2, jumpForce}

NextFree == \E vx \in FreeVel, vy \in FreeVel : Sweep(vx, vy)

SpecFree == InitFree /\ [][NextFree]_vars

\* C18: with the default checker every sweep commits the full move amount,
\* keeps both velocity components, reports no block and no hazard, and
\* leaves isOnGround false.
UnsetCheckerStep ==
  Len(solids) = 0 /\ count'.sweeps = count.sweeps + 1
  => /\ players'[0].x = players[0].x + TruncDiv(obs'.vx * Unit, Unit)
     /\ players'[0].y = players[0].y + TruncDiv(obs'.vy * Unit, Unit)
     /\ players'[0].vx = obs'.vx
     /\ players'[0].vy = obs'.vy
     /\ ~players'[0].isOnGround
     /\ ~obs'.hitX /\ ~obs'.hitY
     /\ obs'.hazard = 0 /\ obs'.wiggled = 0
UnsetCheckerNeverBlocks == [][UnsetCheckerStep]_vars

UnsetCheckerWitness ==
  /\ Len(solids) = 0
  /\ obs.kind = "sweep"
  /\ obs.vx = jumpForce /\ obs.vy = jumpForce
  /\ count.sweeps = MaxSweeps
  /\ players[0].y >= 200 * Unit + 2 * jumpForce
  /\ ~players[0].isOnGround

RunCallStep(method) ==
  obs'.kind = "run" /\ count'.calls = count.calls + 1 /\ obs'.call = method

\* C21: jump() sets jumpState.buffer to jumpBufferMs and changes nothing else
\* of the player, and schedules nothing.
JumpOnlyBuffersStep ==
  RunCallStep("jump")
  => /\ players'[cur].buffer = jumpBufferMs
     /\ players'[cur] = [players[cur] EXCEPT !.buffer = jumpBufferMs]
     /\ jumpSeqs' = jumpSeqs /\ skidTimers' = skidTimers
JumpOnlyBuffers == [][JumpOnlyBuffersStep]_vars

JumpOnlyBuffersWitness ==
  /\ obs.kind = "run" /\ obs.step = "call" /\ obs.call = "jump"
  /\ players[cur].isOnGround
  /\ players[cur].timeSinceGrounded = 0
  /\ players[cur].vy = 0
  /\ players[cur].buffer = jumpBufferMs

\* C22: the justLanded returned by updateMovementPhysics in a tick is true
\* exactly when the vertical sweep of that tick takes isOnGround from false
\* to true.
JustLandedThisTickStep ==
  RunFrameStep
  => (obs'.justLanded <=> ~players[cur].isOnGround /\ players'[cur].isOnGround)
JustLandedThisTick == [][JustLandedThisTickStep]_vars

---------------------------------------------------------------------------
\* The Player's public methods with resetState among them.

\* Player.resetState
ApiReset(max) ==
  /\ count.calls < max
  /\ players' = [players EXCEPT ![cur] = resetState(@)]
  /\ obs' = [obs EXCEPT !.step = "call", !.call = "reset", !.dir = 0,
                         !.runTicks = NoRun]
  /\ count' = [count EXCEPT !.calls = @ + 1]
  /\ UNCHANGED <<kbVars, screenVars, solids, deferredVars, hazardCalls>>

ResetMove(dir) == ApiMove(dir, MaxResetCalls)
ResetJump == ApiJump(MaxResetCalls)
ResetReset == ApiReset(MaxResetCalls)
ResetFrame == ApiFrame(MaxResetFrames)

NextReset ==
  \/ \E dir \in {0 - 1, 0, 1} : ResetMove(dir)
  \/ ResetJump
  \/ ResetReset
  \/ ResetFrame
  \/ SkidTimeout
  \/ \E i \in 1 .. MaxResetFrames : JumpImpulse(i)
  \/ \E i \in 1 .. MaxResetFrames : JumpSeqEnd(i)

SpecReset == InitMoves /\ [][NextReset]_vars

TransientState(p) ==
  << p.vx, p.vy, p.inputX, p.isOnGround, p.wasOnGround, p.isSkidding,
     p.isSquashing, p.playedLandingSquash, p.buffer, p.timeSinceGrounded,
     p.lastFallSpeed >>

\* C23: resetState() leaves the transient state of a freshly constructed
\* Player, and a callback that fires after the reset, before any other call
\* or tick, changes nothing of the player.
ResetLeaksNothingStep ==
  /\ RunCallStep("reset") =>
       TransientState(players'[cur]) = TransientState(FreshPlayer)
  /\ obs.kind = "run" /\ obs.call = "reset" /\ count' = count =>
       players'[cur] = players[cur]
ResetLeaksNothing == [][ResetLeaksNothingStep]_vars

---------------------------------------------------------------------------
\* Further properties of the sweep (SpecSweep)
SweepStep == count'.sweeps = count.sweeps + 1

\* C24: moveY with a move amount of 0, for an actor that stands on a solid
\* and does not move horizontally, calls the collision checker at least once
\* and leaves isOnGround true.
ZeroSweepProbesStep ==
  SweepStep /\ players[0].isOnGround /\ obs'.vx = 0 /\ obs'.vy = 0
  => obs'.probesY >= 1 /\ players'[0].isOnGround
ZeroSweepProbes == [][ZeroSweepProbesStep]_vars

\* C25: after moveY, isOnGround is true exactly when the vertical sweep was
\* blocked with a move amount > 0, whatever isOnGround was before.
GroundedIffBlockedDownStep ==
  SweepStep
  => (players'[0].isOnGround <=> obs'.hitY /\ TruncDiv(obs'.vy * Unit, Unit) > 0)
GroundedIffBlockedDown == [][GroundedIffBlockedDownStep]_vars

GroundedIffBlockedDownWitness ==
  /\ obs.kind = "sweep"
  /\ obs.groundedBefore
  /\ obs.hitY /\ obs.vy < 0
  /\ ~players[0].isOnGround

---------------------------------------------------------------------------
\* Further properties of the Player's methods (SpecRun, SpecMoves)

\* C26: an actor that stands on the platform and has received no call at all
\* (so no jump request) is still grounded at the end of the next tick.
StaysGroundedStep ==
  RunFrameStep /\ count.calls = 0 /\ players[cur].isOnGround
  => players'[cur].isOnGround
StaysGrounded == [][StaysGroundedStep]_vars

---------------------------------------------------------------------------
\* The jump sequence (SpecGame)
SeqsOf(seqs, g) == {i \in 1 .. Len(seqs) : seqs[i].owner = g}
SquashPhase(seqs) == {i \in 1 .. Len(seqs) : seqs[i].phase = "squash"}

\* C27: every player has at most one jump sequence in flight, and isSquashing
\* is true exactly while it has one; the impulse step of a sequence sets
\* vy = -jumpForce and isOnGround = false, and a sequence ends only after its
\* impulse step, clearing isSquashing.
OneJumpSequenceStep ==
  /\ \A g \in Gens :
       /\ Cardinality(SeqsOf(jumpSeqs', g)) <= 1
       /\ players'[g].isSquashing <=> SeqsOf(jumpSeqs', g) # {}
  /\ \A i \in 1 .. MaxFrames :
       ImpulseStepOf(i) =>
         /\ players'[jumpSeqs[i].owner].vy = -jumpForce
         /\ ~players'[jumpSeqs[i].owner].isOnGround
  /\ Len(jumpSeqs') < Len(jumpSeqs) =>
       Cardinality(SquashPhase(jumpSeqs')) = Cardinality(SquashPhase(jumpSeqs))
---------------------------------------------------------------------------
\* The turn skid (SpecMoves)

\* C28: while isSkidding stays true, inputX does not change.
SkidHoldsInputStep ==
  obs.kind = "run" /\ players[cur].isSkidding /\ players'[cur].isSkidding
  => players'[cur].inputX = players[cur].inputX
SkidHoldsInput == [][SkidHoldsInputStep]_vars

\* C29: a move(dir) that reverses a grounded actor faster than the threshold,
\* with no skid in progress, leaves inputX unchanged and sets isSkidding; the
\* timeout of a skid clears isSkidding and sets inputX to the skid's
\* direction.
SkidThenTurnStep ==
  /\ /\ RunCallStep("move") /\ obs'.dir # 0
     /\ players[cur].isOnGround
     /\ Sign(players[cur].vx) # obs'.dir
     /\ Abs(players[cur].vx) > turnThreshold
     /\ ~players[cur].isSkidding
     => /\ players'[cur].inputX = players[cur].inputX
        /\ players'[cur].isSkidding
  /\ /\ obs.kind = "run" /\ count' = count
     /\ skidTimers # << >> /\ Head(skidTimers).owner = cur
     => /\ ~players'[cur].isSkidding
        /\ players'[cur].inputX = Head(skidTimers).dir
SkidThenTurn == [][SkidThenTurnStep]_vars

---------------------------------------------------------------------------
\* The gravity of one tick (SpecHop)

\* the gravity per frame that C30 states
StatedGravity(vy, held) ==
  IF vy < 0
  THEN IF ~held /\ shortHopEnabled
       THEN TruncDiv(gravity * gravityUpMultiplier * earlyReleaseGravityMultiplier, Unit * Unit)
       ELSE TruncDiv(gravity * gravityUpMultiplier, Unit)
  ELSE gravity

\* C30: in one tick (dt = 1) vy grows by gravity * gravityUpMultiplier *
\* earlyReleaseMultiplier if vy < 0 and the button is released (short hop
\* enabled), by gravity * gravityUpMultiplier if vy < 0 otherwise, and by
\* gravity if vy >= 0.
GravityPerTickStep ==
  obs.kind = "hop" /\ count'.frames = count.frames + 1
  => /\ players'[0].vy - players[0].vy = StatedGravity(players[0].vy, TRUE)
     /\ players'[1].vy - players[1].vy = StatedGravity(players[1].vy, FALSE)
GravityPerTick == [][GravityPerTickStep]_vars

---------------------------------------------------------------------------
\* The corner wiggle: an actor under ceilings, swept as in SpecSweep.
\*
\* obs (kind "sweep") also holds xMid, the x after moveX, and yBefore, the y
\* before moveY.

\* a ceiling over the left shoulder (bottom at 132, right edge at 186)
CeilingLeft == Solid(150, 126, 36, 6, FALSE)
\* the same over the right shoulder (left edge at 214)
CeilingRight == Solid(214, 126, 36, 6, FALSE)
WiggleWorlds ==
  { << CeilingLeft >>,
    << CeilingRight >>,
    \* a ceiling over both shoulders
    << Solid(150, 126, 100, 6, FALSE) >>,
    \* a post where the wiggle to the right would put the body
    << CeilingLeft, Solid(230, 150, 4, 20, FALSE) >>,
    \* the same post, a hazard
    << CeilingLeft, Solid(230, 150, 4, 20, TRUE) >>,
    \* a block in the band above the place of the wiggle to the right
    << CeilingLeft, Solid(225, 129, 4, 3, FALSE) >> }

\* the top of the hitbox flush under the ceilings, half a unit under them,
\* four units under them
WiggleStartY == {196 * Unit, 196 * Unit + Unit \div 2, 200 * Unit}
WiggleVelX == {-Unit \div 2, 0, Unit \div 2}
WiggleVelY == {-jumpForce, -3 * Unit - Unit \div 2, -Unit \div 2, 0, Unit \div 2}

InitWiggle ==
  /\ InitCommon
  /\ obs = [kind |-> "none"]
  /\ solids \in WiggleWorlds
  /\ \E y \in WiggleStartY :
       players = [g \in Gens |-> [FreshPlayer EXCEPT !.x = 200 * Unit, !.y = y]]
  /\ \A i \in 1 .. Len(solids) : ~HitboxOverlaps(players[0], solids[i])

NextWiggle == \E vx \in WiggleVelX, vy \in WiggleVelY : Sweep(vx, vy)

SpecWiggle == InitWiggle /\ [][NextWiggle]_vars

\* the probes of the corner wiggle, as C31 states them, for the hitbox at
\* (x, y): the 2 x 2 probes at the two top corners, one unit above the top
CornerBlocked(x, y, side) ==
  LET b == getSolidBox(x, y)
      px == IF side < 0 THEN b.x ELSE b.x + b.width - probeSize
  IN collidesAt(solids, px, b.y - Unit, probeSize, probeSize).hit

\* the hitbox shifted by the wiggle distance to side, and the band of two
\* units above it, are clear
LateralClear(x, y, side) ==
  LET b == getSolidBox(x + side * wiggleDistance, y)
  IN /\ ~collidesAt(solids, b.x, b.y, b.width, b.height).hit
     /\ ~collidesAt(solids, b.x, b.y - 2 * Unit, b.width, 2 * Unit).hit

\* the side the wiggle goes to: the free side if exactly one corner is
\* blocked and the lateral probe to that side is clear, 0 otherwise
WiggleSide(x, y) ==
  LET l == CornerBlocked(x, y, 0 - 1)
      r == CornerBlocked(x, y, 1)
      free == IF l /\ ~r THEN 1 ELSE IF r /\ ~l THEN 0 - 1 ELSE 0
  IN IF free # 0 /\ LateralClear(x, y, free) THEN free ELSE 0

BlockedAscent == SweepStep /\ obs'.hitY /\ obs'.vy < 0

\* C31: after an upward sweep that was blocked, if the wiggle applies x has
\* changed by the wiggle distance toward the free side and
\* vy = min(vyBefore, -1); otherwise x is unchanged and vy = 0.
CornerWiggleRuleStep ==
  BlockedAscent
  => IF WiggleSide(obs'.xMid, obs'.yBefore) # 0
     THEN /\ players'[0].x = obs'.xMid + WiggleSide(obs'.xMid, obs'.yBefore) * wiggleDistance
          /\ players'[0].vy = Min(obs'.vy, -Unit)
     ELSE /\ players'[0].x = obs'.xMid
          /\ players'[0].vy = 0
CornerWiggleRule == [][CornerWiggleRuleStep]_vars

CornerWiggleRuleWitness ==
  /\ obs.kind = "sweep"
  /\ obs.hitY /\ obs.vy = -Unit \div 2
  /\ obs.wiggled = 1
  /\ players[0].x = obs.xMid + wiggleDistance
  /\ players[0].vy = -Unit

\* C32: after a corner wiggle the hitbox overlaps no solid.
WiggleOutsideSolidsStep ==
  SweepStep /\ obs'.wiggled # 0
  => \A i \in 1 .. Len(solids) : ~HitboxOverlaps(players'[0], solids[i])
WiggleOutsideSolids == [][WiggleOutsideSolidsStep]_vars

WiggleOutsideSolidsWitness ==
  /\ obs.kind = "sweep"
  /\ obs.wiggled = 0 - 1
  /\ players[0].x = obs.xMid - wiggleDistance
  /\ players[0].y = obs.yBefore
  /\ \A i \in 1 .. Len(solids) : ~HitboxOverlaps(players[0], solids[i])

\* C33: an upward sweep that committed a sub-step before it was blocked has
\* both corner probes clear (at the top before the sweep) and does not shift
\* the actor.
WiggleOnlyOnFirstStepStep ==
  BlockedAscent /\ obs'.probesY >= 2
  => /\ ~CornerBlocked(obs'.xMid, obs'.yBefore, 0 - 1)
     /\ ~CornerBlocked(obs'.xMid, obs'.yBefore, 1)
     /\ obs'.wiggled = 0
     /\ players'[0].x = obs'.xMid
WiggleOnlyOnFirstStep == [][WiggleOnlyOnFirstStepStep]_vars

WiggleOnlyOnFirstStepWitness ==
  /\ obs.kind = "sweep"
  /\ obs.hitY /\ obs.vy < 0
  /\ obs.probesY >= 2
  /\ players[0].y < obs.yBefore
  /\ Len(solids) = 1 /\ solids[1] = CeilingLeft
  /\ obs.wiggled = 0

\* the hitbox at (x, y), or moved by one sub-step in any direction, overlaps
\* a hazard
HazardWithinStep(x, y) ==
  LET b == getSolidBox(x, y)
  IN \E i \in 1 .. Len(solids) :
       /\ solids[i].isHazard
       /\ Overlaps(b.x - STEP_RESOLUTION, b.y - STEP_RESOLUTION,
                   b.width + 2 * STEP_RESOLUTION, b.height + 2 * STEP_RESOLUTION,
                   solids[i])

\* C34: a tick's sweeps invoke the hazard callback only if the hitbox, where
\* the horizontal or the vertical sweep ended or one sub-step further,
\* touches a hazard.
HazardOnlyByHitboxStep ==
  SweepStep /\ obs'.hazard > 0
  => \/ HazardWithinStep(obs'.xMid, obs'.yBefore)
     \/ HazardWithinStep(obs'.xMid, players'[0].y)
HazardOnlyByHitbox == [][HazardOnlyByHitboxStep]_vars

---------------------------------------------------------------------------
\* The respawn (SpecGame)

\* C35: a hazard callback that arrives while a respawn is in progress changes
\* nothing of it; a respawn begins only from no respawn, and it ends by
\* installing exactly one new Player with playerDestroyed false again;
\* playerDestroyed is true exactly while a respawn is in progress.
OneRespawnStep ==
  /\ playerDestroyed' <=> respawn' # "idle"
  /\ playerDestroyed /\ hazardCalls' # hazardCalls =>
       respawn' = respawn /\ cur' = cur /\ playerDestroyed'
  /\ respawn # "delay" /\ respawn' = "delay" =>
       respawn = "idle" /\ hazardCalls' # hazardCalls /\ cur' = cur
  /\ cur' # cur =>
       /\ cur' = cur + 1
       /\ respawn = "loading" /\ respawn' = "idle"
       /\ players'[cur'] = FreshPlayer
OneRespawn == [][OneRespawnStep]_vars

OneRespawnWitness ==
  /\ obs.kind = "game"
  /\ cur = 1
  /\ hazardCalls[0] >= 2
  /\ ~playerDestroyed /\ respawn = "idle"

---------------------------------------------------------------------------
\* Further properties of the Player's methods (SpecRun)

NeverGroundedNoJump ==
  (obs.kind = "run" /\ ~obs.everGrounded)
  => /\ ~players[cur].isOnGround
     /\ players[cur].timeSinceGrounded > coyoteTimeMs
     /\ ~players[cur].isSquashing
     /\ ~JumpSeqRunning(jumpSeqs)
     /\ players[cur].vy >= 0

NeverGroundedNoJumpWitness ==
  /\ obs.kind = "run" /\ obs.step = "frame" /\ ~obs.everGrounded
  /\ solids = DeepLevel
  /\ count.frames >= 5
  /\ players[cur].buffer < 0

---------------------------------------------------------------------------
\* The jump sequence under fair callbacks (SpecLive): jump() and update() in
\* any order on the flat level; a sequence that was played has its callbacks
\* run eventually (Actions advances every playing sequence on each ticker
\* tick)
LiveJump == ApiJump(MaxLiveCalls)
LiveFrame == ApiFrame(MaxLiveFrames)
LiveImpulse == \E i \in 1 .. MaxLiveFrames : JumpImpulse(i)
LiveSeqEnd == \E i \in 1 .. MaxLiveFrames : JumpSeqEnd(i)

NextLive ==
  \/ LiveJump
  \/ LiveFrame
  \/ LiveImpulse
  \/ LiveSeqEnd

FairLive == WF_vars(LiveImpulse) /\ WF_vars(LiveSeqEnd)

SpecLive == InitMoves /\ [][NextLive]_vars /\ FairLive

AwaitsImpulse(g) == \E i \in SeqsOf(jumpSeqs, g) : jumpSeqs[i].phase = "squash"
AwaitsEnd(g) == \E i \in SeqsOf(jumpSeqs, g) : jumpSeqs[i].phase = "stretch"

\* C38: under fair scheduling of the sequence callbacks every started jump
\* sequence eventually applies its impulse and then clears isSquashing, so
\* isSquashing never stays true for ever.
JumpSequenceCompletes ==
  \A g \in Gens :
    /\ AwaitsImpulse(g) ~> (AwaitsEnd(g) /\ players[g].vy = 0 - jumpForce)
    /\ AwaitsEnd(g) ~> (SeqsOf(jumpSeqs, g) = {} /\ ~players[g].isSquashing)
    /\ players[g].isSquashing ~> ~players[g].isSquashing

JumpSequenceCompletesWitness ==
  /\ obs.kind = "run"
  /\ jumpSeqs = <<>>
  /\ ~players[cur].isSquashing
  /\ ~players[cur].isOnGround
  /\ players[cur].vy < 0

---------------------------------------------------------------------------
\* The turn skid under fair timers (SpecSkid): the calls and frames of
\* SpecMoves; a timeout that was set fires eventually
FairSkid == WF_vars(SkidTimeout)

SpecSkid == InitMoves /\ [][NextMoves]_vars /\ FairSkid

SkidTimersOf(g) == {i \in 1 .. Len(skidTimers) : skidTimers[i].owner = g}

\* every player has at most one skid timeout pending, and isSkidding is true
\* exactly while it has one
OneSkidTimer ==
  \A g \in Gens :
    /\ Cardinality(SkidTimersOf(g)) <= 1
    /\ players[g].isSkidding <=> SkidTimersOf(g) # {}

\* C39: at most one skid timer per Player is pending at any time, isSkidding
\* is true exactly while one is pending, and under fair timers every skid
\* eventually ends: isSkidding returns to false.
SkidEventuallyEnds ==
  /\ []OneSkidTimer
  /\ \A g \in Gens : players[g].isSkidding ~> ~players[g].isSkidding

=============================================================================
